---- MODULE Spec2Model ----
(***************************************************************************)
(* A model of jessiql's JSelectInLoader (jessiql/engine/jselectinloader.py) *)
(* the batched relationship loader: prepare_states partitions the parent    *)
(* records, fetch_results_and_populate_states is a generator that executes  *)
(* one query per chunk of keys, writes the relationship field of the parent *)
(* records and yields the fetched rows.                                     *)
(*                                                                          *)
(* Parent records are identified by their index in `states`, fetched rows   *)
(* by their index in `table` (0 stands for Python's None where a row is     *)
(* expected).  A relationship field value is a record [kind, items]:        *)
(* kind "unset" (the key is absent from the dict), "none" (None), "row"     *)
(* (one row, items = <<r>>) or "list" (a Python list, items = its rows).    *)
(***************************************************************************)
EXTENDS Integers, Sequences, FiniteSets, TLC

\* Bounds of the model
MaxParents == 3
MaxKey == 2
MaxRows == 3
MaxChunk == 2

\* Python's None as a key component / as a row reference
None == 0

\* marks a key column that is absent from a parent record
Missing == -1

VARIABLES
    query_info,     \* [load_only_child, zero_idx, pk_cols]: the relationship's query info
    uselist,        \* relation_property.uselist
    CHUNKSIZE,      \* JSelectInLoader.CHUNKSIZE
    table,          \* the rows of the target entity the query can return
    states,         \* the caller's parent records
    our_states,     \* self.our_states
    none_states,    \* self.none_states
    gen,            \* life cycle of the loader / of the generator object
    pc,             \* position of the generator in its code
    pending,        \* generator local: our_states / our_keys still to process
    chunk,          \* generator local: the current chunk
    data,           \* generator local: the rows of the current chunk, by key
    pos,            \* generator local: index of the loop over the chunk
    out,            \* generator local: rest of the current `yield from`
    queries,        \* log: the "primary_keys" list bound by every query sent to the executor
    yielded,        \* log: the rows handed to the caller, with their batch
    run,            \* 1 for the first load call, 2 for the repeated one
    first_states,   \* the parent records as the first load call left them
    first_queries,  \* the queries the first load call executed
    warnings        \* number of sa.util.warn() calls of the load call

vars == <<query_info, uselist, CHUNKSIZE, table, states, our_states, none_states,
          gen, pc, pending, chunk, data, pos, out, queries, yielded, run, first_states, first_queries, warnings>>

----------------------------------------------------------------------------
\* Values of the relationship field of a parent record

Unset == [kind |-> "unset", items |-> <<>>]
NoneValue == [kind |-> "none", items |-> <<>>]
RowValue(r) == [kind |-> "row", items |-> <<r>>]
ListValue(s) == [kind |-> "list", items |-> s]

----------------------------------------------------------------------------
\* Sequences and insertion-ordered dicts (sequences of <<key, value>> pairs)

Range(s) == {s[i] : i \in DOMAIN s}

Min(a, b) == IF a < b THEN a ELSE b

\* s[0:n + 1]: the chunk is one element too long
TakeOneMore(s, n) == SubSeq(s, 1, Min(n + 1, Len(s)))

\* s[0:n]
Take(s, n) == SubSeq(s, 1, Min(n, Len(s)))

\* s[n + 1:]: the slice of the rest starts one element too far
DropOneMore(s, n) == SubSeq(s, Min(n + 1, Len(s)) + 1, Len(s))

\* s[n:]
Drop(s, n) == SubSeq(s, Min(n, Len(s)) + 1, Len(s))

DictHas(d, k) == \E i \in DOMAIN d : d[i][1] = k

DictGet(d, k, default) ==
    IF DictHas(d, k) THEN d[CHOOSE i \in DOMAIN d : d[i][1] = k][2] ELSE default

DictPut(d, k, v) ==
    IF DictHas(d, k)
    THEN [i \in DOMAIN d |-> IF d[i][1] = k THEN <<k, v>> ELSE d[i]]
    ELSE Append(d, <<k, v>>)

DictValues(d) == [i \in DOMAIN d |-> d[i][2]]

----------------------------------------------------------------------------
\* Key tuples

KeyVals == 1..MaxKey

\* The key tuples a record can carry: one column, or two columns (composite
\* key) whose second column is None or 1.
KeyTuples(n) ==
    IF n = 1
    THEN {<<a>> : a \in KeyVals \cup {None}}
    ELSE {<<a, b>> : a \in KeyVals \cup {None}, b \in {None, 1}}

\* a key tuple with a null component
HasNullComponent(t) == \E i \in DOMAIN t : t[i] = None

NonNullTuples(n) == {t \in KeyTuples(n) : ~HasNullComponent(t)}

\* a null check that looks at the first key column only
none_in_first(related_ident) == related_ident[1] = None

\* `None in related_ident`
none_in(related_ident) == \E i \in DOMAIN related_ident : related_ident[i] = None

\* Python's order on tuples of equal length
RECURSIVE TupleLess(_, _)
TupleLess(a, b) ==
    IF a = <<>> \/ b = <<>> THEN a = <<>> /\ b # <<>>
    ELSE IF a[1] # b[1] THEN a[1] < b[1]
    ELSE TupleLess(Tail(a), Tail(b))

\* sorted(S, reverse=True): the keys in descending order
RECURSIVE sorted_descending(_)
sorted_descending(S) ==
    IF S = {} THEN <<>>
    ELSE LET m == CHOOSE x \in S : \A y \in S \ {x} : TupleLess(y, x)
         IN <<m>> \o sorted_descending(S \ {m})

\* sorted(S) for a set of tuples
RECURSIVE sorted(_)
sorted(S) ==
    IF S = {} THEN <<>>
    ELSE LET m == CHOOSE x \in S : \A y \in S \ {x} : TupleLess(x, y)
         IN <<m>> \o sorted(S \ {m})

get_primary_key_tuple(row) == row.pk

get_foreign_key_tuple(row) == row.fk

\* the key tuple of a parent record: child_lookup_cols of the record when the
\* parent holds the foreign key, its primary key otherwise
state_key(state_dict) == state_dict.key

\* a lookup that never fails, as state_dict.get(column) would be
key_error_never(state_dict) == FALSE

\* state_dict[lk.key] / row[col.key] raises KeyError: a key column is absent
key_error(state_dict) == \E i \in DOMAIN state_dict.key : state_dict.key[i] = Missing

\* `key[0] if self.query_info.zero_idx else key`
Bind(key) == IF query_info.zero_idx THEN key[1] ELSE key

----------------------------------------------------------------------------
\* The query: the rows of the table whose matching columns are IN the bound
\* list, in table order.  The matching columns (in_expr, built from pk_cols)
\* are the target's primary key when the parent holds the foreign key, and
\* the foreign key columns of the target row otherwise.

in_expr(row) ==
    LET cols == IF query_info.load_only_child
                THEN get_primary_key_tuple(row) ELSE get_foreign_key_tuple(row)
    IN IF query_info.zero_idx THEN cols[1] ELSE cols

execute(primary_keys) ==
    SelectSeq([i \in 1..Len(table) |-> i],
              LAMBDA r : in_expr(table[r]) \in Range(primary_keys))

----------------------------------------------------------------------------
\* Grouping of the fetched rows

\* itertools.groupby(rows, get_foreign_key_tuple): the maximal runs of
\* consecutive rows with the same key, as <<key, rows>> pairs
RECURSIVE groupby(_)
groupby(rows) ==
    IF rows = <<>> THEN <<>>
    ELSE LET k == get_foreign_key_tuple(table[rows[1]])
             rest == groupby(Tail(rows))
         IN IF rest # <<>> /\ rest[1][1] = k
            THEN <<<<k, <<rows[1]>> \o rest[1][2]>>>> \o Tail(rest)
            ELSE <<<<k, <<rows[1]>>>>>> \o rest

\* data[k] = list(v): the rows of an earlier run of the same key are lost
extend_overwrite(d, k, v) == DictPut(d, k, v)

\* data[k].extend(v) on a defaultdict(list)
extend(d, k, v) == DictPut(d, k, DictGet(d, k, <<>>) \o v)

\* the loop `for k, v in itertools.groupby(...): data[k].extend(map(dict, v))`
RECURSIVE group_rows(_, _)
group_rows(d, groups) ==
    IF groups = <<>> THEN d
    ELSE group_rows(extend(d, groups[1][1], groups[1][2]), Tail(groups))

\* the rows keyed by their foreign key columns instead of their primary key
RECURSIVE key_rows_by_fk(_, _)
key_rows_by_fk(d, rows) ==
    IF rows = <<>> THEN d
    ELSE key_rows_by_fk(DictPut(d, get_foreign_key_tuple(table[rows[1]]), rows[1]), Tail(rows))

\* the comprehension {get_primary_key_tuple(target_mapper, row): dict(row) for row in ...}
RECURSIVE key_rows(_, _)
key_rows(d, rows) ==
    IF rows = <<>> THEN d
    ELSE key_rows(DictPut(d, get_primary_key_tuple(table[rows[1]]), rows[1]), Tail(rows))

\* _empty_result(): [] if uselist else None
empty_result == IF uselist THEN ListValue(<<>>) ELSE NoneValue

\* collection = data.get(key, _empty_result())
collection_of(d, key) ==
    IF DictHas(d, key) THEN ListValue(DictGet(d, key, <<>>)) ELSE empty_result

\* collection[-1]: the last matching row instead of the first
parent_value_last(collection) ==
    IF ~uselist /\ collection.kind = "list" /\ collection.items # <<>>
    THEN RowValue(collection.items[Len(collection.items)])
    ELSE collection

\* the value _load_via_parent stores: collection[0] if `not uselist and
\* collection` (a non-empty list), the collection itself otherwise
parent_value(collection) ==
    IF ~uselist /\ collection.kind = "list" /\ collection.items # <<>>
    THEN RowValue(collection.items[1])
    ELSE collection

\* the value _load_via_child stores: related_obj if not uselist else [related_obj]
child_value(related_obj) ==
    IF ~uselist
    THEN (IF related_obj = None THEN NoneValue ELSE RowValue(related_obj))
    ELSE ListValue(<<related_obj>>)

\* state_dict[self.key] = v for the parent records of the set S
set_field(sts, S, v) ==
    [i \in DOMAIN sts |-> IF i \in S THEN [sts[i] EXCEPT !.rel = v] ELSE sts[i]]

----------------------------------------------------------------------------
\* Initial states: a relationship, a chunk size, a table of target rows and
\* a list of parent records that do not have the relationship field yet; at
\* most one parent record lacks one of its key columns.
\* Primary keys are never null and are unique in the target table.

Init ==
    /\ \E loc \in BOOLEAN, n \in 1..2 :
        /\ query_info = [load_only_child |-> loc, zero_idx |-> (n = 1), pk_cols |-> n]
        /\ \E m \in 0..MaxParents :
             \E f \in [1..m -> IF loc THEN KeyTuples(n) ELSE NonNullTuples(n)] :
                \E miss \in {<<0, 0>>} \cup ((1..m) \X (1..n)) :
                    states = [i \in 1..m |->
                                [key |-> IF i = miss[1]
                                         THEN [f[i] EXCEPT ![miss[2]] = Missing]
                                         ELSE f[i],
                                 rel |-> Unset]]
        /\ \E m \in 0..MaxRows :
             \E f \in [1..m -> NonNullTuples(n)] :
                /\ loc => \A i, j \in 1..m : f[i] = f[j] => i = j
                /\ table = [i \in 1..m |->
                              IF loc THEN [pk |-> f[i], fk |-> <<>>]
                                     ELSE [pk |-> <<i>>, fk |-> f[i]]]
    /\ uselist \in BOOLEAN
    /\ CHUNKSIZE \in 1..MaxChunk
    /\ our_states = <<>>
    /\ none_states = <<>>
    /\ gen = "new"
    /\ pc = "start"
    /\ pending = <<>>
    /\ chunk = <<>>
    /\ data = <<>>
    /\ pos = 0
    /\ out = <<>>
    /\ queries = <<>>
    /\ yielded = <<>>
    /\ run = 1
    /\ first_states = <<>>
    /\ first_queries = <<>>
    /\ warnings = 0

relationship == <<query_info, uselist, table>>
locals == <<pending, chunk, data, pos, out>>
first == <<first_states, first_queries>>

----------------------------------------------------------------------------
\* prepare_states(states)

\* the parent records the loops of prepare_states get through: all of them,
\* or those before the first record that raises KeyError
complete_prefix(sts) ==
    LET bad == {i \in DOMAIN sts : key_error(sts[i])}
        n == IF bad = {} THEN Len(sts)
             ELSE (CHOOSE i \in bad : \A j \in bad : i <= j) - 1
    IN [i \in 1..n |-> i]

\* self.our_states[related_ident].append(state_dict) onto what an earlier
\* call left in self.our_states
child_groups_accumulating(idx) ==
    LET keys == {state_key(states[idx[i]]) :
                    i \in {j \in DOMAIN idx : ~none_in(state_key(states[idx[j]]))}}
    IN [k \in keys \cup DOMAIN our_states |->
            (IF k \in DOMAIN our_states THEN our_states[k] ELSE <<>>)
            \o SelectSeq(idx, LAMBDA i : state_key(states[i]) = k)]

\* self.our_states = defaultdict(list), then one append per parent record
\* whose related_ident has no None
child_groups(idx) ==
    LET keys == {state_key(states[idx[i]]) :
                    i \in {j \in DOMAIN idx : ~none_in(state_key(states[idx[j]]))}}
    IN [k \in keys |-> SelectSeq(idx, LAMBDA i : state_key(states[i]) = k)]

\* self.none_states = [], then one append per parent record whose
\* related_ident has a None
child_none(idx) == SelectSeq(idx, LAMBDA i : none_in(state_key(states[i])))

\* A KeyError leaves the loader with what the loop had built (the list
\* comprehension of the other topology assigns nothing) and ends the call.
PrepareStates ==
    /\ gen \in {"new", "prepared"}
    /\ LET idx == complete_prefix(states)
           ok == Len(idx) = Len(states)
       IN /\ IF query_info.load_only_child
             THEN /\ our_states' = child_groups(idx)
                  /\ none_states' = child_none(idx)
             ELSE /\ our_states' = IF ok THEN [i \in 1..Len(states) |-> <<state_key(states[i]), i>>]
                                         ELSE our_states
                  /\ UNCHANGED none_states
          /\ gen' = IF ok THEN "prepared" ELSE "prepare_failed"
    /\ UNCHANGED <<relationship, CHUNKSIZE, states, pc, locals, queries, yielded, run, first, warnings>>

\* a plain function instead of a generator function: the null-key parents are
\* populated when it is called
FetchResultsAndPopulateStatesEagerly ==
    /\ gen = "prepared"
    /\ gen' = "created"
    /\ pc' = "start"
    /\ states' = set_field(states, Range(none_states), NoneValue)
    /\ UNCHANGED <<relationship, CHUNKSIZE, our_states, none_states, locals,
                   queries, yielded, run, first, warnings>>

\* fetch_results_and_populate_states(connection, q): calling a generator
\* function creates the generator and runs none of its body
FetchResultsAndPopulateStates ==
    /\ gen = "prepared"
    /\ gen' = "created"
    /\ pc' = "start"
    /\ UNCHANGED <<relationship, CHUNKSIZE, states, our_states, none_states, locals,
                   queries, yielded, run, first, warnings>>

\* the caller's next() on the generator
Resume ==
    /\ gen \in {"created", "suspended"}
    /\ gen' = "running"
    /\ UNCHANGED <<relationship, CHUNKSIZE, states, our_states, none_states, pc, locals,
                   queries, yielded, run, first, warnings>>

\* the dispatch on load_only_child and the code before the while loop
Start ==
    /\ gen = "running" /\ pc = "start"
    /\ IF query_info.load_only_child
       THEN pending' = sorted(DOMAIN our_states) /\ pc' = "child_loop"
       ELSE pending' = our_states /\ pc' = "parent_loop"
    /\ UNCHANGED <<relationship, CHUNKSIZE, states, our_states, none_states, gen,
                   chunk, data, pos, out, queries, yielded, run, first, warnings>>

----------------------------------------------------------------------------
\* _load_via_parent: the target rows hold the foreign key (ONETOMANY, MANYTOMANY)

\* `del our_states[:CHUNKSIZE]` instead of rebinding the local name to a
\* slice: the list is self.our_states, which loses the chunk
ParentExecuteInPlace ==
    /\ gen = "running" /\ pc = "parent_loop"
    /\ pending # <<>>
    /\ LET c == Take(pending, CHUNKSIZE)
           primary_keys == [i \in DOMAIN c |-> Bind(c[i][1])]
       IN /\ chunk' = c
          /\ pending' = Drop(pending, CHUNKSIZE)
          /\ our_states' = Drop(pending, CHUNKSIZE)
          /\ queries' = Append(queries, primary_keys)
          /\ data' = group_rows(<<>>, groupby(execute(primary_keys)))
    /\ pos' = 1
    /\ pc' = "parent_populate"
    /\ UNCHANGED <<relationship, CHUNKSIZE, states, none_states, gen, out,
                   yielded, run, first, warnings>>

\* `while our_states:` taken: slice the chunk, execute the query, group the rows
ParentExecute ==
    /\ gen = "running" /\ pc = "parent_loop"
    /\ pending # <<>>
    /\ LET c == Take(pending, CHUNKSIZE)
           primary_keys == [i \in DOMAIN c |-> Bind(c[i][1])]
       IN /\ chunk' = c
          /\ pending' = Drop(pending, CHUNKSIZE)
          /\ queries' = Append(queries, primary_keys)
          /\ data' = group_rows(<<>>, groupby(execute(primary_keys)))
    /\ pos' = 1
    /\ pc' = "parent_populate"
    /\ UNCHANGED <<relationship, CHUNKSIZE, states, our_states, none_states, gen, out,
                   yielded, run, first, warnings>>

\* `while our_states:` taken and connection.execute() raises: nothing catches
\* the error, the generator is finished and the caller gets the exception
ParentExecuteFails ==
    /\ gen = "running" /\ pc = "parent_loop"
    /\ pending # <<>>
    /\ LET c == Take(pending, CHUNKSIZE)
           primary_keys == [i \in DOMAIN c |-> Bind(c[i][1])]
       IN /\ chunk' = c
          /\ pending' = Drop(pending, CHUNKSIZE)
          /\ queries' = Append(queries, primary_keys)
    /\ gen' = "failed"
    /\ UNCHANGED <<relationship, CHUNKSIZE, states, our_states, none_states, pc, data,
                   pos, out, yielded, run, first, warnings>>

\* `while our_states:` not taken: the generator returns
ParentReturn ==
    /\ gen = "running" /\ pc = "parent_loop"
    /\ pending = <<>>
    /\ gen' = "exhausted"
    /\ UNCHANGED <<relationship, CHUNKSIZE, states, our_states, none_states, pc, locals,
                   queries, yielded, run, first, warnings>>

\* one iteration of `for key, state_dict in chunk:` up to its `yield from collection`;
\* `yield from None` raises TypeError
ParentPopulate ==
    /\ gen = "running" /\ pc = "parent_populate"
    /\ LET key == chunk[pos][1]
           state_dict == chunk[pos][2]
           collection == collection_of(data, key)
       IN /\ states' = set_field(states, {state_dict}, parent_value(collection))
          /\ warnings' = IF ~uselist /\ Len(collection.items) > 1
                         THEN warnings + 1 ELSE warnings
          /\ IF collection.kind = "none"
             THEN gen' = "raised" /\ UNCHANGED <<pc, out>>
             ELSE out' = collection.items /\ pc' = "parent_yield" /\ UNCHANGED gen
    /\ UNCHANGED <<relationship, CHUNKSIZE, our_states, none_states, pending, chunk, data,
                   pos, queries, yielded, run, first>>

\* `yield from collection` hands the next row to the caller
ParentYield ==
    /\ gen = "running" /\ pc = "parent_yield"
    /\ out # <<>>
    /\ yielded' = Append(yielded, [batch |-> Len(queries), row |-> Head(out)])
    /\ out' = Tail(out)
    /\ gen' = "suspended"
    /\ UNCHANGED <<relationship, CHUNKSIZE, states, our_states, none_states, pc, pending,
                   chunk, data, pos, queries, run, first, warnings>>

\* `yield from collection` is over: next parent of the chunk, or next chunk
ParentYieldDone ==
    /\ gen = "running" /\ pc = "parent_yield"
    /\ out = <<>>
    /\ pos' = pos + 1
    /\ pc' = IF pos + 1 <= Len(chunk) THEN "parent_populate" ELSE "parent_loop"
    /\ UNCHANGED <<relationship, CHUNKSIZE, states, our_states, none_states, gen, pending,
                   chunk, data, out, queries, yielded, run, first, warnings>>

----------------------------------------------------------------------------
\* _load_via_child: the parent records hold the foreign key (MANYTOONE)

\* `while our_keys:` taken: slice the chunk, execute the query, key the rows
ChildExecute ==
    /\ gen = "running" /\ pc = "child_loop"
    /\ pending # <<>>
    /\ LET c == Take(pending, CHUNKSIZE)
           primary_keys == [i \in DOMAIN c |-> Bind(c[i])]
       IN /\ chunk' = c
          /\ pending' = Drop(pending, CHUNKSIZE)
          /\ queries' = Append(queries, primary_keys)
          /\ data' = key_rows(<<>>, execute(primary_keys))
    /\ pos' = 1
    /\ pc' = "child_populate"
    /\ UNCHANGED <<relationship, CHUNKSIZE, states, our_states, none_states, gen, out,
                   yielded, run, first, warnings>>

\* connection.execute() raises and the parent records written so far are
\* reset: a rollback the code does not do
ChildExecuteFailsRollback ==
    /\ gen = "running" /\ pc = "child_loop"
    /\ pending # <<>>
    /\ LET c == Take(pending, CHUNKSIZE)
           primary_keys == [i \in DOMAIN c |-> Bind(c[i])]
       IN /\ chunk' = c
          /\ pending' = Drop(pending, CHUNKSIZE)
          /\ queries' = Append(queries, primary_keys)
    /\ states' = [i \in DOMAIN states |-> [states[i] EXCEPT !.rel = Unset]]
    /\ gen' = "failed"
    /\ UNCHANGED <<relationship, CHUNKSIZE, our_states, none_states, pc, data,
                   pos, out, yielded, run, first, warnings>>

\* `while our_keys:` taken and connection.execute() raises: nothing catches
\* the error, the generator is finished and the caller gets the exception
ChildExecuteFails ==
    /\ gen = "running" /\ pc = "child_loop"
    /\ pending # <<>>
    /\ LET c == Take(pending, CHUNKSIZE)
           primary_keys == [i \in DOMAIN c |-> Bind(c[i])]
       IN /\ chunk' = c
          /\ pending' = Drop(pending, CHUNKSIZE)
          /\ queries' = Append(queries, primary_keys)
    /\ gen' = "failed"
    /\ UNCHANGED <<relationship, CHUNKSIZE, states, our_states, none_states, pc, data,
                   pos, out, yielded, run, first, warnings>>

\* `while our_keys:` not taken: the generator returns
ChildReturn ==
    /\ gen = "running" /\ pc = "child_loop"
    /\ pending = <<>>
    /\ gen' = "exhausted"
    /\ UNCHANGED <<relationship, CHUNKSIZE, states, our_states, none_states, pc, locals,
                   queries, yielded, run, first, warnings>>

\* one iteration of `for key in chunk:`: every parent of the key gets the row
ChildPopulate ==
    /\ gen = "running" /\ pc = "child_populate"
    /\ LET key == chunk[pos]
           related_obj == DictGet(data, key, None)
       IN states' = set_field(states, Range(our_states[key]), child_value(related_obj))
    /\ pos' = pos + 1
    /\ pc' = IF pos + 1 <= Len(chunk) THEN "child_populate" ELSE "child_none"
    /\ UNCHANGED <<relationship, CHUNKSIZE, our_states, none_states, gen, pending, chunk,
                   data, out, queries, yielded, run, first, warnings>>

\* the generator yields data.get(key) for every key of the chunk instead of
\* data.values(): None for a key without a row
ChildPopulateNoneYieldPerKey ==
    /\ gen = "running" /\ pc = "child_none"
    /\ states' = set_field(states, Range(none_states), NoneValue)
    /\ out' = [j \in DOMAIN chunk |-> DictGet(data, chunk[j], None)]
    /\ pc' = "child_yield"
    /\ UNCHANGED <<relationship, CHUNKSIZE, our_states, none_states, gen, pending, chunk,
                   data, pos, queries, yielded, run, first, warnings>>

\* `for state_dict in none_states: state_dict[self.key] = None`, inside the
\* while loop, and the start of `yield from data.values()`
ChildPopulateNone ==
    /\ gen = "running" /\ pc = "child_none"
    /\ states' = set_field(states, Range(none_states), NoneValue)
    /\ out' = DictValues(data)
    /\ pc' = "child_yield"
    /\ UNCHANGED <<relationship, CHUNKSIZE, our_states, none_states, gen, pending, chunk,
                   data, pos, queries, yielded, run, first, warnings>>

\* `yield from data.values()` hands the next row to the caller
ChildYield ==
    /\ gen = "running" /\ pc = "child_yield"
    /\ out # <<>>
    /\ yielded' = Append(yielded, [batch |-> Len(queries), row |-> Head(out)])
    /\ out' = Tail(out)
    /\ gen' = "suspended"
    /\ UNCHANGED <<relationship, CHUNKSIZE, states, our_states, none_states, pc, pending,
                   chunk, data, pos, queries, run, first, warnings>>

\* the loop goes on to the next chunk while rows of this one are still to be
\* yielded
ChildYieldDoneEarly ==
    /\ gen = "running" /\ pc = "child_yield"
    /\ pc' = "child_loop"
    /\ UNCHANGED <<relationship, CHUNKSIZE, states, our_states, none_states, gen, pending,
                   chunk, data, pos, out, queries, yielded, run, first, warnings>>

\* `yield from data.values()` is over: back to the head of the while loop
ChildYieldDone ==
    /\ gen = "running" /\ pc = "child_yield"
    /\ out = <<>>
    /\ pc' = "child_loop"
    /\ UNCHANGED <<relationship, CHUNKSIZE, states, our_states, none_states, gen, pending,
                   chunk, data, pos, out, queries, yielded, run, first, warnings>>

----------------------------------------------------------------------------
\* A second load call of the same parent records (without the relationship
\* field) and the same table with another CHUNKSIZE, once the first one has
\* been consumed to exhaustion

Rerun ==
    /\ gen = "exhausted" /\ run = 1
    /\ CHUNKSIZE' \in (1..MaxChunk) \ {CHUNKSIZE}
    /\ first_states' = states
    /\ first_queries' = queries
    /\ warnings' = 0
    /\ states' = [i \in DOMAIN states |-> [states[i] EXCEPT !.rel = Unset]]
    /\ run' = 2
    /\ gen' = "new"
    /\ pc' = "start"
    /\ pending' = <<>> /\ chunk' = <<>> /\ data' = <<>> /\ pos' = 0 /\ out' = <<>>
    /\ queries' = <<>>
    /\ yielded' = <<>>
    /\ UNCHANGED <<relationship, our_states, none_states>>

----------------------------------------------------------------------------

Next ==
    \/ PrepareStates
    \/ FetchResultsAndPopulateStates
    \/ Resume
    \/ Start
    \/ ParentExecute
    \/ ParentExecuteFails
    \/ ParentReturn
    \/ ParentPopulate
    \/ ParentYield
    \/ ParentYieldDone
    \/ ChildExecute
    \/ ChildExecuteFails
    \/ ChildReturn
    \/ ChildPopulate
    \/ ChildPopulateNone
    \/ ChildYield
    \/ ChildYieldDone
    \/ Rerun

Spec == Init /\ [][Next]_vars

----------------------------------------------------------------------------
\* Properties

\* C1 (completeness, P1): once the generator has been consumed to exhaustion,
\* every parent record has its relationship field set, for either topology
\* and any mix of null and non-null foreign keys.
C1_Completeness ==
    gen = "exhausted" => \A i \in DOMAIN states : states[i].rel.kind # "unset"

\* C2: with the foreign key on the target rows and plural cardinality, after a
\* full drain the field of every parent is exactly the list of the rows whose
\* foreign key tuple equals the parent's primary key tuple, in the order of
\* the query result, adjacent or not.
C2_ViaParentCollections ==
    (gen = "exhausted" /\ ~query_info.load_only_child /\ uselist) =>
        \A i \in DOMAIN states :
            states[i].rel =
                ListValue(SelectSeq([r \in 1..Len(table) |-> r],
                                    LAMBDA r : table[r].fk = states[i].key))

\* a drain where a parent got two rows that are not adjacent in the result
\* and another parent got the row between them
C2_Witness ==
    /\ gen = "exhausted" /\ ~query_info.load_only_child /\ uselist
    /\ \E i, j \in DOMAIN states :
        /\ states[i].key # states[j].key
        /\ Len(states[i].rel.items) = 2
        /\ Len(states[j].rel.items) = 1
        /\ states[i].rel.items[1] < states[j].rel.items[1]
        /\ states[j].rel.items[1] < states[i].rel.items[2]

\* C3: with the foreign key on the parent, after a full drain every parent
\* whose key has no null component and whose target row exists holds that row
\* (as the one element of a list when the cardinality is plural), and two
\* parents with the same key tuple hold the same value.
C3_ViaChildMatch ==
    (gen = "exhausted" /\ query_info.load_only_child) =>
        /\ \A i \in DOMAIN states : \A r \in DOMAIN table :
              (~HasNullComponent(states[i].key) /\ table[r].pk = states[i].key) =>
                  states[i].rel = IF uselist THEN ListValue(<<r>>) ELSE RowValue(r)
        /\ \A i, j \in DOMAIN states :
              (~HasNullComponent(states[i].key) /\ states[i].key = states[j].key) =>
                  states[i].rel = states[j].rel

\* two parents share a key that was fetched by the second of two queries
C3_Witness ==
    /\ gen = "exhausted" /\ query_info.load_only_child
    /\ Len(queries) = 2
    /\ \E i, j \in DOMAIN states : \E r \in DOMAIN table :
        /\ i # j
        /\ states[i].key = states[j].key
        /\ table[r].pk = states[i].key
        /\ states[i].rel.items = <<r>>
        /\ Bind(states[i].key) \in Range(queries[2])

\* C4 (null-key short-circuit, P2): with the foreign key on the parent, no
\* key tuple with a null component, in whatever position, is ever in the
\* bound key list of an executed query.
C4_NullKeyNeverBound ==
    query_info.load_only_child =>
        \A q \in DOMAIN queries : \A t \in KeyTuples(query_info.pk_cols) :
            HasNullComponent(t) => Bind(t) \notin Range(queries[q])

\* a composite-key load with a null in the first column of one parent and in
\* the second column of another, which executed a query
C4_Witness ==
    /\ query_info.load_only_child /\ query_info.pk_cols = 2
    /\ gen = "exhausted"
    /\ queries # <<>>
    /\ \E i, j \in DOMAIN states :
        /\ states[i].key[1] = None /\ states[i].key[2] # None
        /\ states[j].key[1] # None /\ states[j].key[2] = None

\* C5: the parents of the null-key set hold the empty value after a full
\* drain, whatever the number of batches (zero, one or many).
C5_NoneStatesPopulated ==
    (gen = "exhausted" /\ query_info.load_only_child) =>
        \A i \in DOMAIN states :
            HasNullComponent(states[i].key) =>
                \/ states[i].rel.kind = "none"
                \/ states[i].rel.kind = "list" /\ states[i].rel.items = <<>>

\* C6: with the foreign key on the target rows, a parent whose key matched no
\* row gets None (singular) or [] (plural), no row is yielded for its key, and
\* the load goes on: the generator does not raise.
C6_NoMatchViaParent ==
    ~query_info.load_only_child =>
        /\ gen # "raised"
        /\ gen = "exhausted" =>
              \A i \in DOMAIN states :
                  (\A r \in DOMAIN table : table[r].fk # states[i].key) =>
                      /\ states[i].rel = IF uselist THEN ListValue(<<>>) ELSE NoneValue
                      /\ \A y \in DOMAIN yielded : table[yielded[y].row].fk # states[i].key

\* C7: with the foreign key on the parent, the parents of a key that matched
\* no row get None (singular) or the empty collection [] (plural), and no row
\* is yielded for that key.
C7_NoMatchViaChild ==
    (gen = "exhausted" /\ query_info.load_only_child) =>
        \A i \in DOMAIN states :
            (/\ ~HasNullComponent(states[i].key)
             /\ \A r \in DOMAIN table : table[r].pk # states[i].key) =>
                /\ states[i].rel = IF uselist THEN ListValue(<<>>) ELSE NoneValue
                /\ \A y \in DOMAIN yielded : table[yielded[y].row].pk # states[i].key

\* C8 (cardinality, P5): in every state a relationship field that has been
\* written holds a list when the cardinality is plural, and one row or None
\* when it is singular.
C8_Cardinality ==
    \A i \in DOMAIN states :
        states[i].rel.kind # "unset" =>
            IF uselist THEN states[i].rel.kind = "list"
                       ELSE states[i].rel.kind \in {"row", "none"}

\* C9 (populate before yield): whenever the generator is suspended at a yield,
\* every parent of the chunk that produced the yielded row has its field set,
\* in both topologies.
C9_PopulateBeforeYield ==
    gen = "suspended" =>
        \A i \in (IF query_info.load_only_child
                  THEN UNION {Range(our_states[chunk[j]]) : j \in DOMAIN chunk}
                  ELSE {chunk[j][2] : j \in DOMAIN chunk}) :
            states[i].rel.kind # "unset"

\* C10 (chunk-size invariance, P3): two full drains of the same parents and
\* the same table with different chunk sizes leave every parent record in the
\* same state.
C10_ChunkSizeInvariance ==
    (run = 2 /\ gen = "exhausted") => states = first_states

\* the second of two full drains that executed different numbers of queries
\* and attached rows to two parents or more
C10_Witness ==
    /\ run = 2 /\ gen = "exhausted"
    /\ Len(queries) # Len(first_queries)
    /\ \E i, j \in DOMAIN states :
        /\ i # j
        /\ states[i].rel.items # <<>>
        /\ states[j].rel.items # <<>>

\* C11 (chunking rule): a full drain over G pending entries (distinct non-null
\* keys with the foreign key on the parent, parent entries otherwise) executes
\* ceil(G / CHUNKSIZE) queries, none when G = 0; every query but the last
\* binds CHUNKSIZE keys and the last one the rest, and the parent entries are
\* bound in the order of the pending list.
C11_ChunkingRule ==
    gen = "exhausted" =>
        LET G == IF query_info.load_only_child
                 THEN Cardinality({states[i].key : i \in {j \in DOMAIN states :
                                                    ~HasNullComponent(states[j].key)}})
                 ELSE Len(states)
            B == CHUNKSIZE
        IN /\ Len(queries) = (G + B - 1) \div B
           /\ \A q \in DOMAIN queries :
                /\ Len(queries[q]) = IF q < Len(queries) THEN B ELSE G - (q - 1) * B
                /\ Len(queries[q]) \in 1..B
                /\ ~query_info.load_only_child =>
                      \A j \in DOMAIN queries[q] :
                          queries[q][j] = Bind(states[(q - 1) * B + j].key)

\* a full drain of three entries in chunks of two: a full query and a rest
C11_Witness ==
    /\ gen = "exhausted"
    /\ CHUNKSIZE = 2
    /\ Len(queries) = 2
    /\ Len(queries[1]) = 2
    /\ Len(queries[2]) = 1

\* C12 (failure semantics): when the executor fails on batch k the generator
\* ends with the error; the parents of the batches 1..k-1 are populated and
\* the failing step and everything after it leave the parent records as they
\* were; no query is sent any more, neither a retry nor a later batch.
C12_FailureSemantics ==
    [][gen' = "failed" =>
          /\ states' = states
          /\ gen = "failed" => queries' = queries
          /\ \A q \in 1..(Len(queries') - 1) :
                IF query_info.load_only_child
                THEN \A i \in DOMAIN states :
                        Bind(states[i].key) \in Range(queries'[q]) =>
                            states'[i].rel.kind # "unset"
                ELSE \A j \in DOMAIN queries'[q] :
                        states'[(q - 1) * CHUNKSIZE + j].rel.kind # "unset"]_vars

\* the second query failed: a parent of the first batch holds its row and a
\* parent of the failed batch has no field
C12_Witness ==
    /\ gen = "failed"
    /\ Len(queries) = 2
    /\ \E i, j \in DOMAIN states :
        /\ states[i].rel.kind \in {"row", "list"} /\ states[i].rel.items # <<>>
        /\ states[j].rel.kind = "unset"

\* C13 (strictly sequential batches): whenever the query of a further batch
\* is sent, the previous batch is complete: every parent of its chunk has its
\* field, nothing is left to yield and every row its query returned has been
\* handed to the caller.
C13_SequentialBatches ==
    [][(Len(queries') > Len(queries) /\ queries # <<>>) =>
          /\ out = <<>>
          /\ \A i \in (IF query_info.load_only_child
                       THEN UNION {Range(our_states[chunk[j]]) : j \in DOMAIN chunk}
                       ELSE {chunk[j][2] : j \in DOMAIN chunk}) :
                states[i].rel.kind # "unset"
          /\ \A r \in Range(execute(queries[Len(queries)])) :
                \E y \in DOMAIN yielded :
                    yielded[y] = [batch |-> Len(queries), row |-> r]]_vars

\* a second query was sent after a first batch of two keys that yielded two rows
C13_Witness ==
    /\ Len(queries) = 2
    /\ Len(queries[1]) = 2
    /\ Cardinality({y \in DOMAIN yielded : yielded[y].batch = 1}) >= 2

\* C14 (lenient singular match): with the foreign key on the target rows and
\* singular cardinality, a parent whose key matched one row or more holds the
\* first of them in result order; more than one match gives one warning and no
\* failure: the generator only raises at a parent that matched no row.
C14_LenientSingularMatch ==
    (~query_info.load_only_child /\ ~uselist) =>
        /\ \A i \in DOMAIN states : \A r \in DOMAIN table :
              (/\ states[i].rel.kind # "unset"
               /\ table[r].fk = states[i].key
               /\ \A r2 \in 1..(r - 1) : table[r2].fk # states[i].key) =>
                  states[i].rel = RowValue(r)
        /\ gen = "raised" => \A r \in DOMAIN table : table[r].fk # chunk[pos][1]
        /\ warnings = Cardinality({i \in DOMAIN states :
                          /\ states[i].rel.kind # "unset"
                          /\ Cardinality({r \in DOMAIN table : table[r].fk = states[i].key}) > 1})

\* a full drain where a parent matched two rows, holds the first one, and a
\* later parent was populated after it
C14_Witness ==
    /\ ~query_info.load_only_child /\ ~uselist
    /\ gen = "exhausted"
    /\ warnings >= 1
    /\ \E i, j \in DOMAIN states : \E r1, r2 \in DOMAIN table :
        /\ i < j
        /\ r1 < r2
        /\ table[r1].fk = states[i].key /\ table[r2].fk = states[i].key
        /\ states[i].rel = RowValue(r1)
        /\ states[j].key # states[i].key
        /\ states[j].rel.kind = "row"

\* C15 (incomplete record): when a parent record lacks a key column,
\* prepare_states fails; the load call never gets further, so no query is
\* sent and no parent record gets a relationship field.
C15_IncompleteRecord ==
    /\ (\E i \in DOMAIN states : Missing \in Range(states[i].key)) =>
          /\ gen \in {"new", "prepare_failed"}
          /\ queries = <<>>
          /\ \A i \in DOMAIN states : states[i].rel.kind = "unset"
    /\ gen = "prepare_failed" => \E i \in DOMAIN states : Missing \in Range(states[i].key)

\* prepare_states failed at the second parent record, after a complete one
C15_Witness ==
    /\ gen = "prepare_failed"
    /\ Len(states) >= 2
    /\ Missing \notin Range(states[1].key)
    /\ Missing \in Range(states[2].key)

\* C16 (deterministic ordering), as claimed: the bound key list of every
\* query is in ascending order, in both topologies.
C16_SortedBoundKeys ==
    \A q \in DOMAIN queries : \A j \in 1..(Len(queries[q]) - 1) :
        IF query_info.zero_idx
        THEN queries[q][j] <= queries[q][j + 1]
        ELSE queries[q][j] = queries[q][j + 1] \/ TupleLess(queries[q][j], queries[q][j + 1])

\* C16, amended: with the foreign key on the parent the bound keys are
\* strictly ascending within every query and from one query to the next, and
\* a full drain binds the distinct non-null keys of the parents, so that the
\* queries depend on the set of keys only; with the foreign key on the target
\* rows the bound keys are the keys of the parents in the order of the parent
\* list, unsorted.
C16_SortedViaChildOnly ==
    /\ query_info.load_only_child =>
          /\ \A q1, q2 \in DOMAIN queries :
                \A j1 \in DOMAIN queries[q1], j2 \in DOMAIN queries[q2] :
                    (q1 < q2 \/ (q1 = q2 /\ j1 < j2)) =>
                        IF query_info.zero_idx
                        THEN queries[q1][j1] < queries[q2][j2]
                        ELSE TupleLess(queries[q1][j1], queries[q2][j2])
          /\ gen = "exhausted" =>
                UNION {Range(queries[q]) : q \in DOMAIN queries}
                    = {Bind(states[i].key) : i \in {j \in DOMAIN states :
                                                ~HasNullComponent(states[j].key)}}
    /\ ~query_info.load_only_child =>
          \A q \in DOMAIN queries : \A j \in DOMAIN queries[q] :
              queries[q][j] = Bind(states[(q - 1) * CHUNKSIZE + j].key)

\* a drained load of parents whose keys come in descending order, bound in
\* ascending order by one query
C16_Witness ==
    /\ query_info.load_only_child
    /\ gen = "exhausted"
    /\ Len(states) >= 2
    /\ ~HasNullComponent(states[1].key) /\ ~HasNullComponent(states[2].key)
    /\ TupleLess(states[2].key, states[1].key)
    /\ Len(queries) = 1
    /\ queries[1] = <<Bind(states[2].key), Bind(states[1].key)>>

\* C17 (partition): with the foreign key on the parent, once prepare_states
\* has returned every parent record is at exactly one place: once in the group
\* of its own key tuple when the tuple has no null component, once in the
\* null-key list otherwise, and nowhere else; this also holds when
\* prepare_states is called again, which does not add to the earlier grouping.
C17_Partition ==
    (query_info.load_only_child /\ gen \notin {"new", "prepare_failed"}) =>
        /\ \A i \in DOMAIN states :
              LET in_none == Cardinality({j \in DOMAIN none_states : none_states[j] = i})
                  in_group(k) == Cardinality({j \in DOMAIN our_states[k] : our_states[k][j] = i})
              IN IF HasNullComponent(states[i].key)
                 THEN /\ in_none = 1
                      /\ \A k \in DOMAIN our_states : in_group(k) = 0
                 ELSE /\ in_none = 0
                      /\ states[i].key \in DOMAIN our_states
                      /\ \A k \in DOMAIN our_states :
                            in_group(k) = IF k = states[i].key THEN 1 ELSE 0
        /\ \A k \in DOMAIN our_states : our_states[k] # <<>>

\* prepare_states has been called again for the second load call: a group of
\* two parents, and a parent in the null-key list
C17_Witness ==
    /\ query_info.load_only_child
    /\ run = 2
    /\ gen = "prepared"
    /\ none_states # <<>>
    /\ \E k \in DOMAIN our_states : Len(our_states[k]) = 2

\* C18 (key deduplication and coverage): with the foreign key on the parent,
\* over a full drain every distinct non-null key tuple of the parents is bound
\* at exactly one position of exactly one query, however many parents share
\* it, and nothing else is bound.
C18_KeysBoundOnce ==
    (gen = "exhausted" /\ query_info.load_only_child) =>
        LET bound == {Bind(states[i].key) : i \in {j \in DOMAIN states :
                                              ~HasNullComponent(states[j].key)}}
        IN /\ \A k \in bound :
                Cardinality({qj \in UNION {{<<q, j>> : j \in DOMAIN queries[q]} :
                                              q \in DOMAIN queries} :
                                queries[qj[1]][qj[2]] = k}) = 1
           /\ UNION {Range(queries[q]) : q \in DOMAIN queries} = bound

\* two parents share a key, a third has another one; two queries of one key
C18_Witness ==
    /\ gen = "exhausted" /\ query_info.load_only_child
    /\ Len(queries) = 2
    /\ Len(states) = 3
    /\ \E i, j, k \in DOMAIN states :
        /\ i # j
        /\ states[i].key = states[j].key
        /\ states[k].key # states[i].key
        /\ ~HasNullComponent(states[i].key) /\ ~HasNullComponent(states[k].key)

\* C19 (every fetched row is yielded): every item handed to the caller is a
\* row the query of its batch returned, never None, and after a full drain
\* every row returned by the query of any batch has been handed to the
\* caller, in both topologies.
C19_FetchedRowsYielded ==
    /\ \A y \in DOMAIN yielded :
          yielded[y].row \in Range(execute(queries[yielded[y].batch]))
    /\ gen = "exhausted" =>
          \A q \in DOMAIN queries : \A r \in Range(execute(queries[q])) :
              \E y \in DOMAIN yielded : yielded[y] = [batch |-> q, row |-> r]

\* a full drain whose two queries each returned a row that was yielded
C19_Witness ==
    /\ gen = "exhausted"
    /\ Len(queries) = 2
    /\ \E y1, y2 \in DOMAIN yielded :
        /\ yielded[y1].batch = 1
        /\ yielded[y2].batch = 2
        /\ yielded[y1].row # yielded[y2].row

\* C20 (consumption-driven execution): before the caller first pulls from the
\* generator no query has been sent and no parent record has a field; while
\* the generator is suspended at a row of batch k, exactly k queries have been
\* sent and the parents of the batches still pending have no field; and a
\* suspended generator does nothing but wait to be resumed.
C20_ConsumptionDriven ==
    /\ [](/\ gen \in {"new", "prepared", "created"} =>
                /\ queries = <<>>
                /\ yielded = <<>>
                /\ \A i \in DOMAIN states : states[i].rel.kind = "unset"
          /\ gen = "suspended" =>
                /\ Len(queries) = yielded[Len(yielded)].batch
                /\ \A j \in DOMAIN pending :
                      \A i \in (IF query_info.load_only_child
                                THEN Range(our_states[pending[j]])
                                ELSE {pending[j][2]}) :
                          states[i].rel.kind = "unset")
    /\ [][gen = "suspended" =>
             (gen' = "running" /\ queries' = queries /\ states' = states)]_vars

\* the caller holds a row of the first batch while another batch is pending
C20_Witness ==
    /\ gen = "suspended"
    /\ Len(queries) = 1
    /\ pending # <<>>
    /\ \E i \in DOMAIN states : states[i].rel.kind = "unset"
    /\ \E i \in DOMAIN states : states[i].rel.items # <<>>

\* C21 (at-most-once yield): over a full drain no fetched row is handed to
\* the caller more than once, whatever the parent list is, two parents with
\* the same primary key tuple included.
C21_YieldedAtMostOnce ==
    gen = "exhausted" =>
        \A y1, y2 \in DOMAIN yielded : yielded[y1] = yielded[y2] => y1 = y2

\* C22 (frame): prepare_states changes no parent record; no step changes the
\* number of parent records or a key column of one, so that the generator
\* writes the relationship field only; the generator leaves self.our_states
\* and self.none_states as prepare_states built them, and they still describe
\* the parent records once the generator is finished.
C22_Frame ==
    /\ [](gen \in {"exhausted", "raised", "failed"} =>
             IF query_info.load_only_child
             THEN \A i \in DOMAIN states :
                     IF HasNullComponent(states[i].key)
                     THEN i \in Range(none_states)
                     ELSE /\ states[i].key \in DOMAIN our_states
                          /\ i \in Range(our_states[states[i].key])
             ELSE our_states = [i \in 1..Len(states) |-> <<states[i].key, i>>])
    /\ [][/\ Len(states') = Len(states)
          /\ \A i \in DOMAIN states : states'[i].key = states[i].key
          /\ (gen \in {"new", "prepared"} /\ gen' \in {"prepared", "prepare_failed"}) =>
                states' = states
          /\ gen \in {"created", "running", "suspended"} =>
                (our_states' = our_states /\ none_states' = none_states)]_vars

\* a drain of two queries is over: a parent holds a row, and the grouping of
\* a loader with the foreign key on the target rows is the one of the parents
C22_Witness ==
    /\ gen = "exhausted"
    /\ ~query_info.load_only_child
    /\ Len(queries) = 2
    /\ Len(our_states) = Len(states)
    /\ \E i \in DOMAIN states : states[i].rel.items # <<>>

====
